---- MODULE Spec2Model ----
(***************************************************************************)
(* The response cache of warcraftlogs/src/cache.rs: the sqlite store       *)
(* (init_db), the query ledger and response vault (trait SQL), the codec   *)
(* (serde_json + gzip) and the facade (insert / select).                   *)
(*                                                                         *)
(* Strings and byte buffers are sequences of byte codes.  Every SQL        *)
(* statement is one atomic step of the calling process; the statements of  *)
(* one call are separate steps (the code opens no transaction).  The store *)
(* engine may fail a statement (an I/O error, a locked or read-only file): *)
(* such a fault is an explicit choice at the statement, recorded in the    *)
(* call's locals.  The clock never runs backwards.                         *)
(***************************************************************************)
EXTENDS Integers, Sequences, FiniteSets

\* ------------------------------------------------------------------ bounds
MaxInserts == 2
MaxHits == 2
MaxClock == 1
MaxCodecNum == 12
MaxCodecId == 11

Procs == {1, 2}
Tables == {"query", "response", "token"}

\* The cache keys ("a", "b") and the payload types and values callers use.
Keys == {<<97>>, <<98>>}
Types == {"u32", "char"}
Values == {[T |-> "u32", v |-> 7], [T |-> "u32", v |-> 12], [T |-> "map", v |-> 0]}
NoValue == [T |-> "none", v |-> 0]

\* The serializable values the codec is exercised on: numbers of one to four
\* digits, and characters, the two that JSON escapes among them.
CodecValues ==
  {[T |-> "u32", v |-> n] : n \in (0..MaxCodecNum) \cup {99, 100, 255, 256, 1000}}
    \cup {[T |-> "char", v |-> c] : c \in {34, 55, 92, 97}}

\* ----------------------------------------------------------------- helpers
Last(s) == s[Len(s)]

MaxOf(S) == CHOOSE x \in S : \A y \in S : y <= x

RECURSIVE SumSeq(_)
SumSeq(s) == IF s = <<>> THEN 0 ELSE s[1] + SumSeq(Tail(s))

\* i32::to_string for a non-negative id: the decimal digits, as ASCII codes.
RECURSIVE ToString(_)
ToString(n) == IF n < 10 THEN <<48 + n>> ELSE ToString(n \div 10) \o <<48 + (n % 10)>>

IsDigits(s) == s # <<>> /\ \A i \in 1..Len(s) : s[i] \in 48..57

RECURSIVE ParseDec(_)
ParseDec(s) == IF s = <<>> THEN 0 ELSE 10 * ParseDec(SubSeq(s, 1, Len(s) - 1)) + (Last(s) - 48)

\* A comparison without the column's affinity: the integer against the text.
SqlIdEqTextNoAffinity(id, text) == <<id>> = text

\* sqlite's comparison of an INTEGER PRIMARY KEY column with a bound TEXT
\* parameter: the text is converted to a number first (column affinity).
SqlIdEqText(id, text) == IsDigits(text) /\ ParseDec(text) = id

\* ------------------------------------------------------------------- codec
CodecOk(b) == [ok |-> TRUE, bytes |-> b]
CodecErr == [ok |-> FALSE, bytes |-> <<>>]

\* serde_json::to_vec: a u32 is its decimal digits, a char a quoted
\* character, with a backslash before a quote or a backslash; a map whose keys
\* are not strings cannot be serialized.
to_vec(val) ==
  CASE val.T = "u32" -> CodecOk(ToString(val.v))
    [] val.T = "char" /\ val.v \in {34, 92} -> CodecOk(<<34, 92, val.v, 34>>)
    [] val.T = "char" /\ val.v \notin {34, 92} -> CodecOk(<<34, val.v, 34>>)
    [] OTHER -> CodecErr

\* serde_json::from_slice::<T>: [ok, val].
from_slice(T, b) ==
  CASE T = "u32" /\ IsDigits(b) /\ (Len(b) = 1 \/ b[1] # 48) ->
         [ok |-> TRUE, val |-> [T |-> "u32", v |-> ParseDec(b)]]
    [] T = "char" /\ Len(b) = 3 /\ b[1] = 34 /\ b[3] = 34 /\ b[2] \notin {34, 92} ->
         [ok |-> TRUE, val |-> [T |-> "char", v |-> b[2]]]
    [] T = "char" /\ Len(b) = 4 /\ b[1] = 34 /\ b[2] = 92 /\ b[3] \in {34, 92} /\ b[4] = 34 ->
         [ok |-> TRUE, val |-> [T |-> "char", v |-> b[3]]]
    [] OTHER -> [ok |-> FALSE, val |-> NoValue]

\* The gzip container: magic and method, the deflate body (a length-framed
\* block), then the checksum and the length of the uncompressed data.  The
\* encoder writes into a Vec, which takes every byte: its feed cannot fail.
GzHeader == <<31, 139, 8>>
Crc(b) == SumSeq(b) % 256

compress(response) ==
  CodecOk(GzHeader \o <<1, Len(response) % 256>> \o response
          \o <<Crc(response), Len(response) % 256>>)

\* The trailer left on the decompressed data.
decompressKeepTrailer(response) ==
  LET n == Len(response)
      body == SubSeq(response, 6, n - 2)
  IN IF /\ n >= 7
        /\ SubSeq(response, 1, 3) = GzHeader
        /\ response[4] = 1
        /\ response[5] = Len(body) % 256
     THEN CodecOk(SubSeq(response, 6, n))
     ELSE CodecErr

\* decompress, decoder.write_all(&response): what the decoder holds once the
\* bytes are fed.  The feed fails (err) on a wrong header, on a corrupt block,
\* and on bytes that follow the trailer of a finished stream (the decoder takes
\* none of them: "failed to write whole buffer"); a stream cut short is no
\* failure of the feed.
GzFeed(response) ==
  LET n == Len(response)
      headerBad == \E i \in 1..3 : i <= n /\ response[i] # GzHeader[i]
      headerOk == n >= 3 /\ ~headerBad
      blockBad == headerOk /\ n >= 4 /\ response[4] # 1
      len == IF n >= 5 THEN response[5] ELSE 0
      ended == headerOk /\ n >= 5 /\ response[4] = 1 /\ n >= 5 + len
      to == IF n < 7 + len THEN n ELSE 7 + len
  IN [err |-> headerBad \/ blockBad \/ (ended /\ n > 7 + len),
      ended |-> ended,
      body |-> IF ended THEN SubSeq(response, 6, 5 + len) ELSE <<>>,
      crc_bytes |-> IF ended THEN SubSeq(response, 6 + len, to) ELSE <<>>]

\* decompress: `let _ = decoder.write_all(&response)` drops the result of the
\* feed; decoder.finish()? alone decides: the stream has ended and its trailer
\* carries the checksum and the length of the data.
decompress(response) ==
  LET d == GzFeed(response)
  IN IF d.ended /\ d.crc_bytes = <<Crc(d.body), Len(d.body) % 256>>
     THEN CodecOk(d.body)
     ELSE CodecErr

\* The response encoded under the default id instead of the resolved one.
EncodeResponseDefaultId(id, val) ==
  LET s == to_vec(val)
      c == IF s.ok THEN compress(s.bytes) ELSE CodecErr
  IN [ok |-> c.ok, ir |-> [id |-> 0, response |-> c.bytes]]

\* TryFrom<Response<T>> for InternalResponse: serialize, then compress.
EncodeResponse(id, val) ==
  LET s == to_vec(val)
      c == IF s.ok THEN compress(s.bytes) ELSE CodecErr
  IN [ok |-> c.ok, ir |-> [id |-> id, response |-> c.bytes]]

\* The stored bytes deserialized without decompressing them.
DecodeResponseNoDecompress(T, ir) ==
  LET v == from_slice(T, ir.response)
  IN [ok |-> v.ok, r |-> [id |-> ir.id, response |-> v.val]]

\* TryFrom<InternalResponse> for Response<T>: decompress, then deserialize.
DecodeResponse(T, ir) ==
  LET d == decompress(ir.response)
      v == IF d.ok THEN from_slice(T, d.bytes) ELSE [ok |-> FALSE, val |-> NoValue]
  IN [ok |-> v.ok, r |-> [id |-> ir.id, response |-> v.val]]

\* ------------------------------------------------------------------- state
VARIABLES
  dbFile,     \* whether the store file cache.db exists
  tables,     \* the tables the store holds
  queryT,     \* the rows of table query, in rowid order
  responseT,  \* the rows of table response
  clock,      \* the last instant Utc::now() returned
  pc,         \* each process's position in its call
  call,       \* each process's current call and its arguments
  loc,        \* each process's locals, and the rowid its connection last inserted
  ret,        \* each process's return value, once its call is done
  pre,        \* the tables as they were when each process's call started
  log,        \* per key, the insert calls made under it and how each ended
  okSel       \* per row of table query, the selects that resolved it and returned Ok

vars == <<dbFile, tables, queryT, responseT, clock, pc, call, loc, ret, pre, log, okSel>>

NoCall == [op |-> "none", query |-> <<>>, response |-> NoValue, T |-> "none"]
NoQuery == [id |-> 0, query |-> <<>>, hits |-> 0, time_first_request |-> 0,
            time_last_request |-> 0]
NoIR == [id |-> 0, response |-> <<>>]
NoLoc == [q |-> NoQuery, id |-> 0, ir |-> NoIR, faulted |-> FALSE, swallowed |-> FALSE,
          rowid |-> 0, logIdx |-> 0]
NoRet == [kind |-> "none", id |-> 0, response |-> NoValue, msg |-> <<>>]
NoPre == [queryT |-> <<>>, responseT |-> {}]

Ok(id, val) == [kind |-> "Ok", id |-> id, response |-> val, msg |-> <<>>]
\* Error::NoResponseCache carries a string; the other kinds are bare here.
Err(kind, msg) ==
  [kind |-> kind, id |-> 0, response |-> NoValue,
   msg |-> IF kind = "NoResponseCache" THEN msg ELSE <<>>]

Init ==
  /\ dbFile = FALSE
  /\ tables = {}
  /\ queryT = <<>>
  /\ responseT = {}
  /\ clock = 0
  /\ pc = [p \in Procs |-> "idle"]
  /\ call = [p \in Procs |-> NoCall]
  /\ loc = [p \in Procs |-> NoLoc]
  /\ ret = [p \in Procs |-> NoRet]
  /\ pre = [p \in Procs |-> NoPre]
  /\ log = [k \in Keys |-> <<>>]
  /\ okSel = <<>>

\* Whether the engine fails the statement at hand.
FaultChoice == {FALSE, TRUE}

\* Utc::now(): the instant t or a later one.
Now(t) == {u \in {t, t + 1} : u <= MaxClock}

RECURSIVE CountCalls(_)
CountCalls(K) ==
  IF K = {} THEN 0
  ELSE LET k == CHOOSE x \in K : TRUE IN Len(log[k]) + CountCalls(K \ {k})

\* The number of insert calls made so far.
NumInserts == CountCalls(Keys)

\* The number of hits recorded so far.
NumHits == SumSeq([i \in 1..Len(queryT) |-> queryT[i].hits])

\* ------------------------------------------------------------ the SQL layer
\* A scan of table query: sqlite walks the table's b-tree, which yields the
\* rows by increasing rowid (the table has no index a plan could use).
RECURSIVE ScanByRowid(_, _)
ScanByRowid(rows, ids) ==
  IF ids = {} THEN <<>>
  ELSE LET m == CHOOSE x \in ids : \A y \in ids : x <= y
           r == CHOOSE i \in 1..Len(rows) : rows[i].id = m
       IN <<rows[r]>> \o ScanByRowid(rows, ids \ {m})

QueryScan == ScanByRowid(queryT, {queryT[i].id : i \in 1..Len(queryT)})

\* The result set of SELECT_QUERY: the rows of the scan whose query column
\* equals the bound text.
QueryRows(query) == SelectSeq(QueryScan, LAMBDA r : r.query = query)

\* The result set of SELECT_RESPONSE for a bound text.
ResponseRows(text) == {r \in responseT : SqlIdEqText(r.id, text)}

\* The first row of the result set instead of the last.
QuerySelectFirst(rows) == Head(rows)

\* responses.last() of SQL::select on table query.
QuerySelectLast(rows) == Last(rows)

\* The rowid sqlite gives a new row of table query: one past the largest.
NextRowid == IF queryT = <<>> THEN 1 ELSE MaxOf({queryT[i].id : i \in 1..Len(queryT)}) + 1

\* The UPDATE without its WHERE clause: every row is set.
UpdateQueryNoWhere(id, hits, t) ==
  [i \in 1..Len(queryT) |-> [queryT[i] EXCEPT !.hits = hits, !.time_last_request = t]]

\* UPDATE_QUERY on the rows whose id is the bound one.
UpdateQuery(id, hits, t) ==
  [i \in 1..Len(queryT) |->
     IF queryT[i].id = id
     THEN [queryT[i] EXCEPT !.hits = hits, !.time_last_request = t]
     ELSE queryT[i]]

\* ---------------------------------------------------------------- the calls
\* A call ends: its return value is set, and an insert's log entry is closed.
Return(p, r) ==
  /\ ret' = [ret EXCEPT ![p] = r]
  /\ pc' = [pc EXCEPT ![p] = "done"]
  /\ log' = IF call[p].op = "insert"
            THEN [log EXCEPT ![call[p].query][loc[p].logIdx].st =
                    IF r.kind = "Ok" THEN "ok" ELSE "err"]
            ELSE log

\* An engine fault met by the call of p (f) is remembered.
Faulted(p, f) == [loc[p] EXCEPT !.faulted = @ \/ f]

AfterInit(p) == IF call[p].op = "insert" THEN "ins_query" ELSE "sel_resolve"

\* insert(query, response) is called.
StartInsert(p, k, v) ==
  /\ pc[p] = "idle"
  /\ NumInserts < MaxInserts
  /\ pc' = [pc EXCEPT ![p] = "open_rw"]
  /\ call' = [call EXCEPT ![p] = [op |-> "insert", query |-> k, response |-> v, T |-> v.T]]
  /\ log' = [log EXCEPT ![k] = Append(@, [v |-> v, st |-> "run"])]
  /\ loc' = [loc EXCEPT ![p] = [NoLoc EXCEPT !.logIdx = Len(log[k]) + 1]]
  /\ pre' = [pre EXCEPT ![p] = [queryT |-> queryT, responseT |-> responseT]]
  /\ UNCHANGED <<dbFile, tables, queryT, responseT, clock, ret, okSel>>

\* select::<T>(query) is called.
StartSelect(p, k, T) ==
  /\ pc[p] = "idle"
  /\ NumHits < MaxHits
  /\ SumSeq(okSel) < MaxHits
  /\ pc' = [pc EXCEPT ![p] = "open_rw"]
  /\ call' = [call EXCEPT ![p] = [op |-> "select", query |-> k, response |-> NoValue, T |-> T]]
  /\ loc' = [loc EXCEPT ![p] = NoLoc]
  /\ pre' = [pre EXCEPT ![p] = [queryT |-> queryT, responseT |-> responseT]]
  /\ UNCHANGED <<dbFile, tables, queryT, responseT, clock, ret, log, okSel>>

\* init_db: Connection::open_with_flags(READ_WRITE): an existing file opens,
\* whatever it holds; otherwise init_db goes on to create the store.
OpenRW(p) ==
  /\ pc[p] = "open_rw"
  /\ \E f \in FaultChoice :
       /\ loc' = [loc EXCEPT ![p] = Faulted(p, f)]
       /\ pc' = [pc EXCEPT ![p] = IF dbFile /\ ~f THEN AfterInit(p) ELSE "open_create"]
  /\ UNCHANGED <<dbFile, tables, queryT, responseT, clock, call, ret, pre, log, okSel>>

\* init_db: Connection::open creates the file if there is none.
OpenCreate(p) ==
  /\ pc[p] = "open_create"
  /\ \E f \in FaultChoice :
       /\ loc' = [loc EXCEPT ![p] = Faulted(p, f)]
       /\ IF f
          THEN /\ Return(p, Err("Rusqlite", <<>>))
               /\ UNCHANGED dbFile
          ELSE /\ dbFile' = TRUE
               /\ pc' = [pc EXCEPT ![p] = "create_query"]
               /\ UNCHANGED <<ret, log>>
  /\ UNCHANGED <<tables, queryT, responseT, clock, call, pre, okSel>>

\* init_db: one CREATE TABLE; it fails if the table exists already.
CreateTable(p, at, t, next) ==
  /\ pc[p] = at
  /\ \E f \in FaultChoice :
       /\ loc' = [loc EXCEPT ![p] = Faulted(p, f)]
       /\ IF f \/ t \in tables
          THEN /\ Return(p, Err("Rusqlite", <<>>))
               /\ UNCHANGED tables
          ELSE /\ tables' = tables \cup {t}
               /\ pc' = [pc EXCEPT ![p] = next]
               /\ UNCHANGED <<ret, log>>
  /\ UNCHANGED <<dbFile, queryT, responseT, clock, call, pre, okSel>>

CreateQueryTable(p) == CreateTable(p, "create_query", "query", "create_response")
CreateResponseTable(p) == CreateTable(p, "create_response", "response", "create_token")
CreateTokenTable(p) == CreateTable(p, "create_token", "token", AfterInit(p))

\* The two clock reads taken in the other order.
NewQuerySwapped(k, t1, t2) ==
  [id |-> NextRowid, query |-> k, hits |-> 0, time_first_request |-> t2,
   time_last_request |-> t1]

\* The Query record insert builds: Default gives hits 0 and two clock reads.
NewQuery(k, t1, t2) ==
  [id |-> NextRowid, query |-> k, hits |-> 0, time_first_request |-> t1,
   time_last_request |-> t2]

\* An insert that replaces the row of the same key instead of adding one.
InsertOrReplaceRow(rows, row) ==
  IF \E i \in 1..Len(rows) : rows[i].query = row.query
  THEN [i \in 1..Len(rows) |-> IF rows[i].query = row.query
                                THEN [row EXCEPT !.id = rows[i].id] ELSE rows[i]]
  ELSE Append(rows, row)

\* INSERT_QUERY: the statement adds a row, whatever rows the table holds.
InsertRow(rows, row) == Append(rows, row)

\* insert: q.insert(&connection), INSERT_QUERY.
InsertQuery(p) ==
  /\ pc[p] = "ins_query"
  /\ \E t1 \in Now(clock) : \E t2 \in Now(t1) : \E f \in FaultChoice :
       /\ clock' = t2
       /\ IF f \/ "query" \notin tables
          THEN /\ loc' = [loc EXCEPT ![p] = Faulted(p, f)]
               /\ Return(p, Err("Rusqlite", <<>>))
               /\ UNCHANGED <<queryT, okSel>>
          ELSE /\ loc' = [loc EXCEPT ![p].rowid = NextRowid]
               /\ queryT' = InsertRow(queryT, NewQuery(call[p].query, t1, t2))
               /\ okSel' = [i \in 1..Len(queryT') |-> IF i <= Len(okSel) THEN okSel[i] ELSE 0]
               /\ pc' = [pc EXCEPT ![p] = "ins_resolve"]
               /\ UNCHANGED <<ret, log>>
  /\ UNCHANGED <<dbFile, tables, responseT, call, pre>>

\* SQL::select on table query: the last row of the result set, or a miss.
\* [kind, q]: "Ok" with the row, "Rusqlite", or "NoResponseCache".
QuerySelect(query, f) ==
  IF f \/ "query" \notin tables THEN [kind |-> "Rusqlite", q |-> NoQuery]
  ELSE IF QueryRows(query) = <<>> THEN [kind |-> "NoResponseCache", q |-> NoQuery]
  ELSE [kind |-> "Ok", q |-> QuerySelectLast(QueryRows(query))]

\* SQL::select on table response, by the id's text.
ResponseSelect(text, f) ==
  IF f \/ "response" \notin tables THEN [kind |-> "Rusqlite", ir |-> NoIR]
  ELSE IF ResponseRows(text) = {} THEN [kind |-> "NoResponseCache", ir |-> NoIR]
  ELSE [kind |-> "Ok", ir |-> CHOOSE r \in ResponseRows(text) : TRUE]

\* insert: Query::select(&connection, &query)?.id
InsertResolve(p) ==
  /\ pc[p] = "ins_resolve"
  /\ \E f \in FaultChoice :
       LET r == QuerySelect(call[p].query, f) IN
       /\ IF r.kind = "Ok"
          THEN /\ loc' = [loc EXCEPT ![p] = [Faulted(p, f) EXCEPT !.q = r.q, !.id = r.q.id]]
               /\ pc' = [pc EXCEPT ![p] = "ins_encode"]
               /\ UNCHANGED <<ret, log>>
          ELSE /\ loc' = [loc EXCEPT ![p] = Faulted(p, f)]
               /\ Return(p, Err(r.kind, call[p].query))
  /\ UNCHANGED <<dbFile, tables, queryT, responseT, clock, call, pre, okSel>>

\* An encode step that, when it fails, takes back the row the call added.
InsertEncodeRollback(p) ==
  /\ pc[p] = "ins_encode"
  /\ LET e == EncodeResponse(loc[p].id, call[p].response) IN
       IF e.ok
       THEN /\ loc' = [loc EXCEPT ![p].ir = e.ir]
            /\ pc' = [pc EXCEPT ![p] = "ins_store"]
            /\ UNCHANGED <<ret, log, queryT, okSel>>
       ELSE /\ Return(p, Err("Codec", <<>>))
            /\ queryT' = SelectSeq(queryT, LAMBDA r : r.id # loc[p].id)
            /\ okSel' = SubSeq(okSel, 1, Len(queryT'))
            /\ UNCHANGED loc
  /\ UNCHANGED <<dbFile, tables, responseT, clock, call, pre>>

\* insert: InternalResponse::try_from(Response { id, response })
InsertEncode(p) ==
  /\ pc[p] = "ins_encode"
  /\ LET e == EncodeResponse(loc[p].id, call[p].response) IN
       IF e.ok
       THEN /\ loc' = [loc EXCEPT ![p].ir = e.ir]
            /\ pc' = [pc EXCEPT ![p] = "ins_store"]
            /\ UNCHANGED <<ret, log>>
       ELSE /\ Return(p, Err("Codec", <<>>))
            /\ UNCHANGED loc
  /\ UNCHANGED <<dbFile, tables, queryT, responseT, clock, call, pre, okSel>>

\* insert: response.insert(&connection), INSERT_RESPONSE under the explicit
\* id; the primary key rejects an id that has a row already.
InsertResponse(p) ==
  /\ pc[p] = "ins_store"
  /\ \E f \in FaultChoice :
       /\ loc' = [loc EXCEPT ![p] = Faulted(p, f)]
       /\ IF \/ f
             \/ "response" \notin tables
             \/ \E r \in responseT : r.id = loc[p].ir.id
          THEN /\ Return(p, Err("Rusqlite", <<>>))
               /\ UNCHANGED responseT
          ELSE /\ responseT' = responseT \cup {loc[p].ir}
               /\ Return(p, Ok(0, NoValue))
  /\ UNCHANGED <<dbFile, tables, queryT, clock, call, pre, okSel>>

\* The resolve with the hit recorded right after it, before the fetch.
SelectResolveRecordsHit(p) ==
  /\ pc[p] = "sel_resolve"
  /\ \E f \in FaultChoice :
       LET r == QuerySelect(call[p].query, f) IN
       /\ IF r.kind = "Ok"
          THEN /\ loc' = [loc EXCEPT ![p] = [Faulted(p, f) EXCEPT !.q = r.q, !.id = r.q.id]]
               /\ pc' = [pc EXCEPT ![p] = "sel_fetch"]
               /\ queryT' = UpdateQuery(r.q.id, r.q.hits + 1, clock)
               /\ UNCHANGED <<ret, log>>
          ELSE /\ loc' = [loc EXCEPT ![p] = Faulted(p, f)]
               /\ Return(p, Err(r.kind, call[p].query))
               /\ UNCHANGED queryT
  /\ UNCHANGED <<dbFile, tables, responseT, clock, call, pre, okSel>>

\* select: Query::select(&connection, &query)?
SelectResolve(p) ==
  /\ pc[p] = "sel_resolve"
  /\ \E f \in FaultChoice :
       LET r == QuerySelect(call[p].query, f) IN
       /\ IF r.kind = "Ok"
          THEN /\ loc' = [loc EXCEPT ![p] = [Faulted(p, f) EXCEPT !.q = r.q, !.id = r.q.id]]
               /\ pc' = [pc EXCEPT ![p] = "sel_fetch"]
               /\ UNCHANGED <<ret, log>>
          ELSE /\ loc' = [loc EXCEPT ![p] = Faulted(p, f)]
               /\ Return(p, Err(r.kind, call[p].query))
  /\ UNCHANGED <<dbFile, tables, queryT, responseT, clock, call, pre, okSel>>

\* The fetch with the hit recorded by it, whether or not a response is found.
SelectFetchRecordsHit(p) ==
  /\ pc[p] = "sel_fetch"
  /\ \E f \in FaultChoice :
       LET r == ResponseSelect(ToString(loc[p].q.id), f) IN
       /\ IF r.kind = "Ok"
          THEN /\ loc' = [loc EXCEPT ![p] = [Faulted(p, f) EXCEPT !.ir = r.ir]]
               /\ pc' = [pc EXCEPT ![p] = "sel_update"]
               /\ UNCHANGED <<ret, log>>
          ELSE /\ loc' = [loc EXCEPT ![p] = Faulted(p, f)]
               /\ Return(p, Err(r.kind, ToString(loc[p].q.id)))
  /\ queryT' = UpdateQuery(loc[p].q.id, loc[p].q.hits + 1, clock)
  /\ UNCHANGED <<dbFile, tables, responseT, clock, call, pre, okSel>>

\* select: InternalResponse::select(&connection, &(query.id.to_string()))?
SelectFetch(p) ==
  /\ pc[p] = "sel_fetch"
  /\ \E f \in FaultChoice :
       LET r == ResponseSelect(ToString(loc[p].q.id), f) IN
       /\ IF r.kind = "Ok"
          THEN /\ loc' = [loc EXCEPT ![p] = [Faulted(p, f) EXCEPT !.ir = r.ir]]
               /\ pc' = [pc EXCEPT ![p] = "sel_update"]
               /\ UNCHANGED <<ret, log>>
          ELSE /\ loc' = [loc EXCEPT ![p] = Faulted(p, f)]
               /\ Return(p, Err(r.kind, ToString(loc[p].q.id)))
  /\ UNCHANGED <<dbFile, tables, queryT, responseT, clock, call, pre, okSel>>

\* The stages of a statement an engine fault can hit.
UpdateFaults == {"none", "prepare", "bind", "step"}

\* SQL::update: prepare and query_map propagate their error with ?; the
\* statement runs when the mapped rows are iterated, and for_each(drop)
\* drops the error of that step.  TRUE when update returns Err.
UpdateReturnsErr(f) == f \in {"prepare", "bind"} \/ "query" \notin tables

\* select: Query::update(&connection, (&query.id, &query.hits + 1, Utc::now()))?
SelectUpdate(p) ==
  /\ pc[p] = "sel_update"
  /\ \E t \in Now(clock) : \E f \in UpdateFaults :
       /\ clock' = t
       /\ IF UpdateReturnsErr(f)
          THEN /\ loc' = [loc EXCEPT ![p] = Faulted(p, f # "none")]
               /\ Return(p, Err("Rusqlite", <<>>))
               /\ UNCHANGED queryT
          ELSE /\ loc' = [loc EXCEPT ![p] = [Faulted(p, f # "none") EXCEPT
                                              !.swallowed = (f = "step")]]
               /\ queryT' = IF f = "step" THEN queryT
                            ELSE UpdateQuery(loc[p].q.id, loc[p].q.hits + 1, t)
               /\ pc' = [pc EXCEPT ![p] = "sel_decode"]
               /\ UNCHANGED <<ret, log>>
  /\ UNCHANGED <<dbFile, tables, responseT, call, pre, okSel>>

\* select: Ok(Response::try_from(ir)?)
SelectDecode(p) ==
  /\ pc[p] = "sel_decode"
  /\ LET d == DecodeResponse(call[p].T, loc[p].ir) IN
       /\ Return(p, IF d.ok THEN Ok(d.r.id, d.r.response) ELSE Err("Codec", <<>>))
       /\ okSel' = [i \in 1..Len(okSel) |->
                     IF d.ok /\ queryT[i].id = loc[p].q.id THEN okSel[i] + 1 ELSE okSel[i]]
  /\ UNCHANGED <<dbFile, tables, queryT, responseT, clock, call, loc, pre>>

\* The caller takes the result; the call's locals are gone.
Finish(p) ==
  /\ pc[p] = "done"
  /\ pc' = [pc EXCEPT ![p] = "idle"]
  /\ call' = [call EXCEPT ![p] = NoCall]
  /\ loc' = [loc EXCEPT ![p] = NoLoc]
  /\ ret' = [ret EXCEPT ![p] = NoRet]
  /\ pre' = [pre EXCEPT ![p] = NoPre]
  /\ UNCHANGED <<dbFile, tables, queryT, responseT, clock, log, okSel>>

Step(p) ==
  \/ \E k \in Keys : \E v \in Values : StartInsert(p, k, v)
  \/ \E k \in Keys : \E T \in Types : StartSelect(p, k, T)
  \/ OpenRW(p)
  \/ OpenCreate(p)
  \/ CreateQueryTable(p)
  \/ CreateResponseTable(p)
  \/ CreateTokenTable(p)
  \/ InsertQuery(p)
  \/ InsertResolve(p)
  \/ InsertEncode(p)
  \/ InsertResponse(p)
  \/ SelectResolve(p)
  \/ SelectFetch(p)
  \/ SelectUpdate(p)
  \/ SelectDecode(p)
  \/ Finish(p)

\* Calls run one at a time: one caller, each call run to its end.
Next == Step(1)

Spec == Init /\ [][Next]_vars

\* Two callers on independent connections, interleaved statement by statement,
\* on a store that init_db has created: both work on the key "a", inserting
\* u32 values and selecting at that type.
ConcValues == {v \in Values : v.T = "u32"}

InitConc ==
  /\ dbFile = TRUE
  /\ tables = Tables
  /\ queryT = <<>>
  /\ responseT = {}
  /\ clock = 0
  /\ pc = [p \in Procs |-> "idle"]
  /\ call = [p \in Procs |-> NoCall]
  /\ loc = [p \in Procs |-> NoLoc]
  /\ ret = [p \in Procs |-> NoRet]
  /\ pre = [p \in Procs |-> NoPre]
  /\ log = [k \in Keys |-> <<>>]
  /\ okSel = <<>>

StepConc(p) ==
  \/ \E v \in ConcValues : StartInsert(p, <<97>>, v)
  \/ StartSelect(p, <<97>>, "u32")
  \/ OpenRW(p)
  \/ OpenCreate(p)
  \/ CreateQueryTable(p)
  \/ InsertQuery(p)
  \/ InsertResolve(p)
  \/ InsertEncode(p)
  \/ InsertResponse(p)
  \/ SelectResolve(p)
  \/ SelectFetch(p)
  \/ SelectUpdate(p)
  \/ SelectDecode(p)
  \/ Finish(p)

NextConc == \E p \in Procs : StepConc(p)

SpecConc == InitConc /\ [][NextConc]_vars

\* The codec on a store that holds n rows: n - 1 records of key "b" whose
\* inserts failed to encode their value, and the record of an insert of key
\* "a" that has resolved its id and is about to encode its response.
CodecRow(i, n) ==
  [id |-> i, query |-> IF i = n THEN <<97>> ELSE <<98>>, hits |-> 0,
   time_first_request |-> 0, time_last_request |-> 0]

InitCodec ==
  \E n \in 1..MaxCodecId : \E v \in CodecValues :
    /\ dbFile = TRUE
    /\ tables = Tables
    /\ queryT = [i \in 1..n |-> CodecRow(i, n)]
    /\ responseT = {}
    /\ clock = 0
    /\ pc = [p \in Procs |-> IF p = 1 THEN "ins_encode" ELSE "idle"]
    /\ call = [p \in Procs |-> IF p = 1
                 THEN [op |-> "insert", query |-> <<97>>, response |-> v, T |-> v.T]
                 ELSE NoCall]
    /\ loc = [p \in Procs |-> IF p = 1
                THEN [NoLoc EXCEPT !.q = CodecRow(n, n), !.id = n, !.rowid = n, !.logIdx = 1]
                ELSE NoLoc]
    /\ ret = [p \in Procs |-> NoRet]
    /\ pre = [p \in Procs |-> IF p = 1
                THEN [queryT |-> [i \in 1..(n - 1) |-> CodecRow(i, n)], responseT |-> {}]
                ELSE NoPre]
    /\ log = [k \in Keys |-> IF k = <<97>>
                THEN <<[v |-> v, st |-> "run"]>>
                ELSE [i \in 1..(n - 1) |-> [v |-> [T |-> "map", v |-> 0], st |-> "err"]]]
    /\ okSel = [i \in 1..n |-> 0]

\* The insert goes on from its encode step; selects follow, one at a time.
NextCodec ==
  \/ InsertEncode(1)
  \/ InsertResponse(1)
  \/ \E k \in Keys : \E T \in Types : StartSelect(1, k, T)
  \/ OpenRW(1)
  \/ OpenCreate(1)
  \/ CreateQueryTable(1)
  \/ SelectResolve(1)
  \/ SelectFetch(1)
  \/ SelectUpdate(1)
  \/ SelectDecode(1)
  \/ Finish(1)

SpecCodec == InitCodec /\ [][NextCodec]_vars

\* ------------------------------------------------------------------ claims
SelectDone(p) == pc[p] = "done" /\ call[p].op = "select"
InsertDone(p) == pc[p] = "done" /\ call[p].op = "insert"

\* The insert calls made so far under the key of p's call.
LogOf(p) == log[call[p].query]

\* The call of p returns the error of an engine fault it met itself.
EngineError(p) == loc[p].faulted /\ ret[p].kind = "Rusqlite"

\* The positions of the rows of table query that carry key k.
RowsOf(k) == {i \in 1..Len(queryT) : queryT[i].query = k}

\* The rows of table response whose id is that of a row carrying key k.
ResponsesOf(k) == {r \in responseT : \E i \in RowsOf(k) : queryT[i].id = r.id}

AllOk(l) == \A i \in 1..Len(l) : l[i].st = "ok"

\* C1 (write-then-read): a select of key q whose last insert call under q
\* returned Ok with value v, read at v's type, returns Ok with value v; the one
\* other outcome is the error of an engine fault the select itself met.
C1_WriteThenRead ==
  \A p \in Procs :
    (/\ SelectDone(p)
     /\ LogOf(p) # <<>>
     /\ Last(LogOf(p)).st = "ok"
     /\ call[p].T = Last(LogOf(p)).v.T)
    => \/ ret[p].kind = "Ok" /\ ret[p].response = Last(LogOf(p)).v
       \/ EngineError(p)

C1_Witness ==
  \E p \in Procs :
    /\ SelectDone(p)
    /\ Len(LogOf(p)) = 1
    /\ Last(LogOf(p)).st = "ok"
    /\ ret[p].kind = "Ok"
    /\ ret[p].response = Last(LogOf(p)).v
    /\ Len(queryT) = 2

\* C2 (miss signaling): a select of a key insert was never called with, that met
\* no engine fault itself, returns NoResponseCache carrying that key.
C2_MissSignaling ==
  \A p \in Procs :
    (SelectDone(p) /\ LogOf(p) = <<>> /\ ~loc[p].faulted)
    => ret[p] = Err("NoResponseCache", call[p].query)

\* The row of table t (a sequence of Query records) whose id is id.
RowById(t, id) == t[CHOOSE i \in 1..Len(t) : t[i].id = id]

\* C3 (hit counting): with calls run one at a time, a select that returns Ok
\* leaves the record it resolved with hits one greater than before the call and
\* time_last_request not earlier than before nor than time_first_request; and
\* every record's hits is the number of selects that resolved it and returned Ok.
C3_HitCounting ==
  /\ \A p \in Procs :
       (SelectDone(p) /\ ret[p].kind = "Ok")
       => LET old == RowById(pre[p].queryT, ret[p].id)
              new == RowById(queryT, ret[p].id)
          IN /\ new.hits = old.hits + 1
             /\ new.time_last_request >= old.time_last_request
             /\ new.time_last_request >= new.time_first_request
  /\ (\A p \in Procs : pc[p] = "idle")
     => \A i \in 1..Len(queryT) : queryT[i].hits = okSel[i]

\* The most recently inserted row of table query that carries key k.
LatestRow(k) == queryT[MaxOf(RowsOf(k))]

\* C4 (latest insert is authoritative): resolving a key returns the most
\* recently inserted row that carries it; a select after two inserts under the
\* key that returned Ok, the second with value v2, returns v2 and the id of the
\* second row, unless it returns the error of an engine fault it met itself.
C4_LatestInsertAuthoritative ==
  /\ \A p \in Procs :
       pc[p] \in {"ins_encode", "sel_fetch"} => loc[p].q = LatestRow(call[p].query)
  /\ \A p \in Procs :
       (/\ SelectDone(p)
        /\ Len(LogOf(p)) >= 2
        /\ LogOf(p)[Len(LogOf(p)) - 1].st = "ok"
        /\ Last(LogOf(p)).st = "ok"
        /\ call[p].T = Last(LogOf(p)).v.T)
       => \/ /\ ret[p].kind = "Ok"
             /\ ret[p].response = Last(LogOf(p)).v
             /\ ret[p].id = LatestRow(call[p].query).id
             /\ \A i \in RowsOf(call[p].query) : queryT[i].id <= ret[p].id
          \/ EngineError(p)

C4_Witness ==
  \E p \in Procs :
    /\ SelectDone(p)
    /\ Len(LogOf(p)) = 2
    /\ AllOk(LogOf(p))
    /\ LogOf(p)[1].v # LogOf(p)[2].v
    /\ ret[p].kind = "Ok"
    /\ ret[p].response = LogOf(p)[2].v
    /\ ret[p].id = 2

\* C5 (scenario C): after two insert calls under one key that returned Ok, with
\* values v1 and v2, a select of the key at their type returns Ok with v1 or v2,
\* unless it returns the error of an engine fault it met itself.
C5_ScenarioC ==
  \A p \in Procs :
    (/\ SelectDone(p)
     /\ Len(LogOf(p)) = 2
     /\ AllOk(LogOf(p))
     /\ \A i \in 1..2 : LogOf(p)[i].v.T = call[p].T)
    => \/ ret[p].kind = "Ok" /\ ret[p].response \in {LogOf(p)[1].v, LogOf(p)[2].v}
       \/ EngineError(p)

C5_Witness ==
  \E p \in Procs :
    /\ SelectDone(p)
    /\ Len(LogOf(p)) = 2
    /\ AllOk(LogOf(p))
    /\ LogOf(p)[1].v # LogOf(p)[2].v
    /\ ~loc[p].faulted
    /\ ret[p].kind = "Ok"
    /\ ret[p].response \in {LogOf(p)[1].v, LogOf(p)[2].v}

\* C6 (insert never deduplicates): an insert call that gets past its ledger
\* insert has added one row of table query, also when the key has a row; an
\* insert that returns Ok has added one row to each table and changed no other;
\* n insert calls under a key, all returned Ok, leave n rows of table query
\* with that key and n rows of table response for them.
C6_InsertNeverDeduplicates ==
  /\ \A p \in Procs :
       pc[p] \in {"ins_resolve", "ins_encode", "ins_store"} \/ (InsertDone(p) /\ ret[p].kind = "Ok")
       => /\ Len(queryT) = Len(pre[p].queryT) + 1
          /\ Last(queryT).query = call[p].query
          /\ \A i \in 1..Len(pre[p].queryT) : queryT[i] = pre[p].queryT[i]
          /\ \A i \in 1..Len(pre[p].queryT) : queryT[i].id # Last(queryT).id
  /\ \A p \in Procs :
       (InsertDone(p) /\ ret[p].kind = "Ok")
       => /\ pre[p].responseT \subseteq responseT
          /\ Cardinality(responseT) = Cardinality(pre[p].responseT) + 1
  /\ \A k \in Keys :
       AllOk(log[k])
       => /\ Cardinality(RowsOf(k)) = Len(log[k])
          /\ Cardinality(ResponsesOf(k)) = Len(log[k])

C6_Witness ==
  \E p \in Procs :
    /\ InsertDone(p)
    /\ ret[p].kind = "Ok"
    /\ Len(LogOf(p)) = 2
    /\ AllOk(LogOf(p))
    /\ Cardinality(RowsOf(call[p].query)) = 2
    /\ Cardinality(ResponsesOf(call[p].query)) = 2

\* C7 (orphan tolerance): a select that resolved a record which has no row in
\* table response, and met no engine fault itself, returns NoResponseCache
\* carrying the decimal string of the record's id.
C7_OrphanTolerance ==
  \A p \in Procs :
    (/\ SelectDone(p)
     /\ loc[p].q # NoQuery
     /\ ~\E r \in responseT : r.id = loc[p].q.id
     /\ ~loc[p].faulted)
    => ret[p] = Err("NoResponseCache", ToString(loc[p].q.id))

\* C8 (Query record invariant): every row of table query has hits >= 0 and
\* time_first_request <= time_last_request.
C8_QueryRecordInvariant ==
  \A i \in 1..Len(queryT) :
    /\ queryT[i].hits >= 0
    /\ queryT[i].time_first_request <= queryT[i].time_last_request

C8_Witness ==
  \E i \in 1..Len(queryT) :
    /\ queryT[i].hits > 0
    /\ queryT[i].time_first_request < queryT[i].time_last_request
    /\ \E j \in 1..Len(queryT) : queryT[j].hits = 0

\* C9 (referential integrity): every row of table response carries the id of a
\* row of table query.
C9_ReferentialIntegrity ==
  \A r \in responseT : \E i \in 1..Len(queryT) : queryT[i].id = r.id

C9_Witness ==
  /\ responseT # {}
  /\ \E i \in 1..Len(queryT) : ~\E r \in responseT : r.id = queryT[i].id
  /\ \E p \in Procs : InsertDone(p) /\ ret[p].kind # "Ok"

\* C10 (codec round trip): the InternalResponse encoded from Response{id, v}
\* decodes, at v's type, to Response{id, v}; its bytes are the compressed
\* serialization of v; and a select that reads it back returns id and v, the
\* deserialization of the decompressed bytes.
C10_CodecRoundTrip ==
  /\ \A p \in Procs :
       pc[p] = "ins_store"
       => /\ DecodeResponse(call[p].T, loc[p].ir)
               = [ok |-> TRUE, r |-> [id |-> loc[p].id, response |-> call[p].response]]
          /\ loc[p].ir.id = loc[p].id
          /\ decompress(loc[p].ir.response) = to_vec(call[p].response)
  /\ \A p \in Procs :
       (/\ SelectDone(p)
        /\ ret[p].kind = "Ok")
       => /\ Last(LogOf(p)).st = "ok"
          /\ ret[p].response = Last(LogOf(p)).v
          /\ ret[p].id = loc[p].ir.id
          /\ from_slice(call[p].T, decompress(loc[p].ir.response).bytes)
               = [ok |-> TRUE, val |-> ret[p].response]
          /\ loc[p].ir.response = compress(to_vec(ret[p].response).bytes).bytes

C10_Witness ==
  \E p \in Procs :
    /\ SelectDone(p)
    /\ ret[p].kind = "Ok"
    /\ ret[p].id >= 10
    /\ ret[p].response = [T |-> "u32", v |-> 256]

\* C11 (no error is masked): a step whose execution failed ends the call with
\* that error, so no call goes on past a failed UPDATE; a select returns Ok only
\* if the feed of the stored bytes to the decompressor did not fail; and the
\* bytes an insert stores are the compressed serialization of its value.
C11_NoErrorMasked ==
  \A p \in Procs :
    /\ loc[p].swallowed => pc[p] = "done" /\ ret[p].kind = "Rusqlite"
    /\ (SelectDone(p) /\ ret[p].kind = "Ok") => ~GzFeed(loc[p].ir.response).err
    /\ (InsertDone(p) /\ ret[p].kind = "Ok")
       => /\ to_vec(call[p].response).ok
          /\ loc[p].ir.response = compress(to_vec(call[p].response).bytes).bytes
          /\ loc[p].ir \in responseT

\* The record of table query the select of p resolved, as it is now.
ResolvedRow(p) == RowById(queryT, loc[p].q.id)

\* The select of p resolved a record and its fetch has ended, found or not.
FetchEnded(p) ==
  /\ call[p].op = "select"
  /\ loc[p].q # NoQuery
  /\ \/ pc[p] \in {"sel_update", "sel_decode"}
     \/ pc[p] = "done" /\ loc[p].ir = NoIR

\* C12 as stated (select step order): the hit is recorded before the response
\* is fetched: once the fetch of a select has ended, also when it failed, the
\* resolved record's hits is one greater than the select resolved it with.
C12_SelectStepOrder ==
  \A p \in Procs : FetchEnded(p) => ResolvedRow(p).hits = loc[p].q.hits + 1

\* The positions a select passes, in order, each with the ones that follow it.
SelectOrder ==
  {<<"open_rw", "open_create">>, <<"open_rw", "sel_resolve">>,
   <<"open_create", "create_query">>, <<"create_query", "create_response">>,
   <<"create_response", "create_token">>, <<"create_token", "sel_resolve">>,
   <<"sel_resolve", "sel_fetch">>, <<"sel_fetch", "sel_update">>,
   <<"sel_update", "sel_decode">>}
  \cup {<<x, "done">> : x \in {"open_create", "create_query", "create_response",
                               "create_token", "sel_resolve", "sel_fetch",
                               "sel_update", "sel_decode"}}

\* C12 amended (select step order): a select performs open store, resolve,
\* fetch, record the hit, decode, in that order; it changes table query only at
\* the record-hit step, which follows a fetch that found a response; a select
\* whose fetch fails returns with table query as it was before the call.
C12_SelectOrderFetchFirst ==
  [][\A p \in Procs :
       (call[p].op = "select" /\ pc'[p] # pc[p] /\ pc[p] # "done")
       => /\ <<pc[p], pc'[p]>> \in SelectOrder
          /\ queryT' # queryT => pc[p] = "sel_update" /\ loc[p].ir # NoIR
          /\ (pc[p] = "sel_fetch" /\ pc'[p] = "done") => queryT' = pre[p].queryT
    ]_vars

C12_Witness ==
  \E p \in Procs :
    /\ SelectDone(p)
    /\ loc[p].q # NoQuery
    /\ loc[p].ir = NoIR
    /\ ret[p] = Err("NoResponseCache", ToString(loc[p].q.id))
    /\ queryT = pre[p].queryT
    /\ \E i \in 1..Len(queryT) : queryT[i].hits > 0

\* The positions an insert passes, in order, each with the ones that follow it.
InsertOrder ==
  {<<"open_rw", "open_create">>, <<"open_rw", "ins_query">>,
   <<"open_create", "create_query">>, <<"create_query", "create_response">>,
   <<"create_response", "create_token">>, <<"create_token", "ins_query">>,
   <<"ins_query", "ins_resolve">>, <<"ins_resolve", "ins_encode">>,
   <<"ins_encode", "ins_store">>}
  \cup {<<x, "done">> : x \in {"open_create", "create_query", "create_response",
                               "create_token", "ins_query", "ins_resolve",
                               "ins_encode", "ins_store"}}

\* C13 (insert aborts without rollback): an insert performs open store, ledger
\* insert, resolve, encode, vault store, in that order; when its encode fails it
\* returns the codec error, when its vault store fails the store error, and in
\* both cases the row of table query the call added is still there, under the
\* id the call resolved, and table response is as it was before the call.
C13_InsertAbortsWithoutRollback ==
  [][\A p \in Procs :
       (call[p].op = "insert" /\ pc'[p] # pc[p] /\ pc[p] # "done")
       => /\ <<pc[p], pc'[p]>> \in InsertOrder
          /\ (pc[p] \in {"ins_encode", "ins_store"} /\ pc'[p] = "done" /\ ret'[p].kind # "Ok")
             => /\ ret'[p].kind = IF pc[p] = "ins_encode" THEN "Codec" ELSE "Rusqlite"
                /\ Len(queryT') = Len(pre[p].queryT) + 1
                /\ queryT' = Append(pre[p].queryT, Last(queryT'))
                /\ Last(queryT').query = call[p].query
                /\ Last(queryT').id = loc[p].id
                /\ responseT' = pre[p].responseT
                /\ ~\E r \in responseT' : r.id = loc[p].id
    ]_vars

C13_Witness ==
  \E p \in Procs :
    /\ InsertDone(p)
    /\ ret[p].kind = "Codec"
    /\ Len(queryT) = 2
    /\ queryT = Append(pre[p].queryT, Last(queryT))
    /\ Last(queryT).id = loc[p].id
    /\ responseT = pre[p].responseT
    /\ responseT # {}

\* C14 (record_hit errors are surfaced): Query::update returns Ok only if the
\* UPDATE was carried out, so a select that is past its record-hit step, and a
\* select that returned Ok, has no failed UPDATE behind it and finds the record
\* it resolved with hits one greater than it resolved it with.
C14_RecordHitErrorsSurfaced ==
  \A p \in Procs :
    (call[p].op = "select" /\ (pc[p] = "sel_decode" \/ (pc[p] = "done" /\ ret[p].kind = "Ok")))
    => /\ ~loc[p].swallowed
       /\ ResolvedRow(p).hits = loc[p].q.hits + 1

\* The call of p holds the connection init_db returned.
InitReturned(p) ==
  pc[p] \in {"ins_query", "ins_resolve", "ins_encode", "ins_store",
             "sel_resolve", "sel_fetch", "sel_update", "sel_decode"}

\* C15 (store initialisation ensures the schema): whenever init_db has returned
\* a connection to a call, the store holds the tables query, response and token.
C15_InitEnsuresSchema ==
  \A p \in Procs : InitReturned(p) => tables = Tables

\* The process p takes the step.
Acts(p) == pc'[p] # pc[p]

\* C16 (record lifecycle frame): no step of an insert or a select deletes a row
\* of table query or response, or changes a row's id, query string or
\* time_first_request, or a response row; a select adds no row and changes only
\* hits and time_last_request of the record it resolved; an insert changes no
\* row that exists.
C16_RecordLifecycleFrame ==
  [][/\ Len(queryT') >= Len(queryT)
     /\ \A i \in 1..Len(queryT) :
          /\ queryT'[i].id = queryT[i].id
          /\ queryT'[i].query = queryT[i].query
          /\ queryT'[i].time_first_request = queryT[i].time_first_request
     /\ responseT \subseteq responseT'
     /\ \A p \in Procs :
          /\ (Acts(p) /\ call[p].op = "select")
             => /\ Len(queryT') = Len(queryT)
                /\ responseT' = responseT
                /\ \A i \in 1..Len(queryT) :
                     queryT'[i] # queryT[i] => queryT[i].id = loc[p].q.id
          /\ (Acts(p) /\ call[p].op = "insert")
             => \A i \in 1..Len(queryT) : queryT'[i] = queryT[i]
    ]_vars

C16_Witness ==
  \E p \in Procs :
    /\ SelectDone(p)
    /\ ret[p].kind = "Ok"
    /\ Len(queryT) = 2
    /\ queryT # pre[p].queryT
    /\ responseT = pre[p].responseT
    /\ \A i \in 1..2 : queryT[i] # pre[p].queryT[i] => queryT[i].id = ret[p].id

\* C17 (ledger insert initial values): the row an insert has just added to
\* table query carries the call's key, hits 0, one instant as both
\* time_first_request and time_last_request, and an id no earlier row has.
C17_LedgerInsertInitialValues ==
  \A p \in Procs :
    pc[p] = "ins_resolve"
    => /\ Len(queryT) = Len(pre[p].queryT) + 1
       /\ Last(queryT).query = call[p].query
       /\ Last(queryT).hits = 0
       /\ Last(queryT).time_first_request = Last(queryT).time_last_request
       /\ \A i \in 1..(Len(queryT) - 1) : queryT[i].id # Last(queryT).id

\* Both processes have returned Ok from a select that resolved one record.
BothSelectedOk ==
  /\ \A p \in Procs : SelectDone(p) /\ ret[p].kind = "Ok"
  /\ \A p, r \in Procs : ret[p].id = ret[r].id

\* The least number of hits the two selects resolved the record with.
HitsBefore ==
  CHOOSE h \in {loc[p].q.hits : p \in Procs} : \A p \in Procs : h <= loc[p].q.hits

\* C18 (hit counting under concurrency): when two select calls on one key,
\* interleaved statement by statement, have both returned Ok, the hits of the
\* record they resolved is 2 greater than before the two calls (stated for
\* selects whose UPDATE statements were both carried out).
C18_ConcurrentHitCounting ==
  (BothSelectedOk /\ \A p \in Procs : ~loc[p].swallowed)
  => ResolvedRow(1).hits = HitsBefore + 2

\* C19 (insert stores under its own row): the id an insert call resolved, under
\* which it stores its Response record, is the rowid of the row of table query
\* the same call added, also when two insert calls on one key interleave; and
\* when both calls have ended without meeting an engine fault, both returned Ok
\* and each row they added has a row of table response.
C19_InsertStoresUnderOwnRow ==
  /\ \A p \in Procs :
       (call[p].op = "insert" /\ pc[p] \in {"ins_encode", "ins_store", "done"} /\ loc[p].id # 0)
       => loc[p].id = loc[p].rowid
  /\ (\A p \in Procs : InsertDone(p) /\ ~loc[p].faulted)
     => \A p \in Procs :
          /\ ret[p].kind = "Ok"
          /\ \E r \in responseT : r.id = loc[p].rowid

\* C20 (a miss has no side effect on records): a select that returned
\* NoResponseCache, for want of a row of table query with the key or of a row
\* of table response for the record it resolved, leaves both tables as they
\* were before the call.
C20_MissHasNoSideEffect ==
  \A p \in Procs :
    (SelectDone(p) /\ ret[p].kind = "NoResponseCache")
    => /\ queryT = pre[p].queryT
       /\ responseT = pre[p].responseT

C20_Witness ==
  \E p \in Procs :
    /\ SelectDone(p)
    /\ ret[p].kind = "NoResponseCache"
    /\ ret[p].msg = ToString(loc[p].q.id)
    /\ Len(queryT) = 2
    /\ \E i \in 1..2 : queryT[i].id # loc[p].q.id /\ queryT[i].hits > 0
    /\ queryT = pre[p].queryT

====
